---- MODULE Spec2Model ----
(***************************************************************************)
(* Model of the Code Nexus exercises:                                      *)
(*   ex1/data_stream.py    DataStream variants and StreamProcessor         *)
(*   ex2/nexus_pipeline.py stages, ProcessingPipeline, run_pipeline_chain  *)
(*                                                                         *)
(* Python values are tagged records.  A Python str is a sequence of        *)
(* pieces (TLA+ strings) whose concatenation is the text: an f-string      *)
(* yields one piece per literal segment and per interpolated field, and    *)
(* the texts the code inspects (`in`, split, lower) are written with the   *)
(* characters it looks for as pieces of their own.  A float is the exact   *)
(* number of tenths it stands for; the floats of the model are multiples   *)
(* of 0.5, for which Python's binary arithmetic is exact where it rounds.  *)
(***************************************************************************)
EXTENDS Integers, Sequences, FiniteSets, TLC

VARIABLES
    streams,    \* stream object -> its fields (stream_id, processed_count, ...)
    registry,   \* StreamProcessor.streams: the registered objects, in order
    last,       \* the call just made: its arguments, the fields before it, its outcome
    okSum,      \* stream object -> sum of len(batch) over its process_batch calls that returned
    failed,     \* stream object -> some process_batch call on it raised
    pipelines,  \* the pipelines built: each one's stages, in the order added
    run,        \* the ProcessingPipeline.process call under way, or the last one made
    chain       \* the run_pipeline_chain call under way, or the last one made

svars == <<streams, registry, last, okSum, failed>>
pvars == <<pipelines, run, chain>>
vars == <<streams, registry, last, okSum, failed, pipelines, run, chain>>

\* ------------------------------------------------------------------ bounds

\* longest batch handed to process_batch / process_stream
MaxLen == 2
\* processed_count is not driven beyond this
MaxCount == 4
\* most streams registered with a StreamProcessor
MaxStreams == 2
\* most batches handed to process_all
MaxBatches == 2
\* processed_count total over all streams is not driven beyond this under SpecAll
MaxTotal == 3

\* ----------------------------------------------------------- Python values

None == [tag |-> "None"]
PInt(n) == [tag |-> "int", v |-> n]
PFloat(t) == [tag |-> "float", v |-> t]
PStr(s) == [tag |-> "str", v |-> s]
PList(xs) == [tag |-> "list", v |-> xs]
\* a dict keeps its items in insertion order: a sequence of <<key, value>>
PDict(items) == [tag |-> "dict", v |-> items]

IsInt(x) == x.tag = "int"
IsFloat(x) == x.tag = "float"
IsStr(x) == x.tag = "str"
IsList(x) == x.tag = "list"
IsDict(x) == x.tag = "dict"
\* isinstance(x, (int, float))
IsNumber(x) == IsInt(x) \/ IsFloat(x)

\* type(x).__name__
TypeName(x) == x.tag

Returned(v) == [ok |-> TRUE, val |-> v]
Raised(t, m) == [ok |-> FALSE, exc |-> [type |-> t, msg |-> m]]

Abs(n) == IF n < 0 THEN -n ELSE n

\* a float of t tenths as str() and as format spec .1f print it
Fmt1(t) ==
    (IF t < 0 THEN "-" ELSE "") \o ToString(Abs(t) \div 10) \o "." \o ToString(Abs(t) % 10)

\* str(x) of a number
NumStr(x) == IF IsInt(x) THEN ToString(x.v) ELSE Fmt1(x.v)

\* s / n to the nearest whole, ties to even: the tenths that .1f and round(_, 1) keep
RoundDiv(s, n) ==
    LET q == s \div n
        r == s % n
    IN  IF 2 * r < n THEN q
        ELSE IF 2 * r > n THEN q + 1
        ELSE IF q % 2 = 0 THEN q ELSE q + 1

\* a + b of two numbers: int + int is an int, anything with a float is a float
NumAdd(a, b) ==
    IF IsInt(a) /\ IsInt(b) THEN PInt(a.v + b.v)
    ELSE PFloat((IF IsInt(a) THEN 10 * a.v ELSE a.v) + (IF IsInt(b) THEN 10 * b.v ELSE b.v))

\* the built-in sum(xs): 0 + xs[1] + xs[2] + ..., raising at the first str
RECURSIVE SumFrom(_, _, _)
SumFrom(xs, i, acc) ==
    IF i > Len(xs) THEN Returned(acc)
    ELSE IF IsStr(xs[i])
         THEN Raised("TypeError",
                     <<"unsupported operand type(s) for +: '", TypeName(acc), "' and 'str'">>)
         ELSE SumFrom(xs, i + 1, NumAdd(acc, xs[i]))

PySum(xs) == SumFrom(xs, 1, PInt(0))

\* the built-in abs(x)
PyAbs(x) ==
    IF IsStr(x) THEN Raised("TypeError", <<"bad operand type for abs(): 'str'">>)
    ELSE Returned([x EXCEPT !.v = Abs(x.v)])

\* x >= n for a number x and an int n
NumGeq(x, n) == IF IsInt(x) THEN x.v >= n ELSE x.v >= 10 * n

\* str.lower() on the letters the model's texts use
LowerChar(c) ==
    CASE c = "E" -> "e"
      [] c = "R" -> "r"
      [] c = "O" -> "o"
      [] OTHER -> c

Lower(s) == [i \in 1..Len(s) |-> LowerChar(s[i])]

\* needle in hay, both given character by character
Contains(hay, needle) ==
    \E i \in 1..(Len(hay) - Len(needle) + 1) :
        \A j \in 1..Len(needle) : hay[i + j - 1] = needle[j]

\* ------------------------------------------------------- the values used

Floats == {PFloat(210), PFloat(225)}
Ints == {PInt(100), PInt(-150), PInt(75)}
Strs == {PStr(<<"E", "r", "r", "o", "r">>), PStr(<<"l", "o", "g">>)}
Elems == Floats \cup Ints \cup Strs

SeqsUpTo(S, n) == UNION {[1..k -> S] : k \in 0..n}

Batches == SeqsUpTo(Elems, MaxLen)

Criterias == {None, PStr(<<"high_priority">>)}

\* ---------------------------------------------------------------- streams

Kinds == {"SensorStream", "TransactionStream", "EventStream"}

\* make_stream_id(prefix, 1) of the three scenarios
StreamIdOf(k) ==
    CASE k = "SensorStream" -> "SENSOR_001"
      [] k = "TransactionStream" -> "TRANS_001"
      [] k = "EventStream" -> "EVENT_001"

\* DataStream.__init__ and the variants' __init__
NewStream(k) ==
    IF k = "EventStream"
    THEN [kind |-> k, stream_id |-> StreamIdOf(k), processed_count |-> 0]
    ELSE [kind |-> k, stream_id |-> StreamIdOf(k), processed_count |-> 0,
          last_batch_count |-> 0]

\* DataStream.filter_data
BaseFilterData(batch, criteria) == Returned(batch)

\* the first element of xs on which abs() raises, or 0
FirstStr(xs) ==
    IF \E i \in 1..Len(xs) : IsStr(xs[i])
    THEN CHOOSE i \in 1..Len(xs) : IsStr(xs[i]) /\ \A j \in 1..(i - 1) : ~IsStr(xs[j])
    ELSE 0

\* the threshold of the high_priority criterion
Threshold == 100

\* faulty variant of HighPriority: the threshold itself is left out
HighPriorityStrict(x) ==
    LET a == PyAbs(x).val
    IN  IF IsInt(a) THEN a.v > Threshold ELSE a.v > 10 * Threshold

\* the test of the comprehension in TransactionStream.filter_data: abs(x) >= 100
HighPriority(x) == NumGeq(PyAbs(x).val, Threshold)

\* TransactionStream.filter_data
TransactionFilterData(batch, criteria) ==
    IF criteria = PStr(<<"high_priority">>)
    THEN IF FirstStr(batch) # 0
         THEN PyAbs(batch[FirstStr(batch)])
         ELSE Returned(SelectSeq(batch, HighPriority))
    ELSE Returned(batch)

filter_data(s, batch, criteria) ==
    IF s.kind = "TransactionStream"
    THEN TransactionFilterData(batch, criteria)
    ELSE BaseFilterData(batch, criteria)

\* faulty variant of Temps: every number is taken, not the floats alone
TempsNumeric(batch) == SelectSeq(batch, IsNumber)

\* the elements SensorStream.process_batch averages: isinstance(x, float)
Temps(batch) == SelectSeq(batch, IsFloat)

\* SensorStream.process_batch: the fields after the call and its outcome
SensorProcessBatch(s, batch) ==
    LET s1 == [s EXCEPT !.last_batch_count = Len(batch)]
        s2 == [s1 EXCEPT !.processed_count = @ + Len(batch)]
        temps == Temps(batch)
        avg_temp == RoundDiv(PySum(temps).val.v, Len(temps))
    IN  IF batch = <<>>
        THEN [st |-> s1, out |-> Returned(<<"Sensor analysis: no data">>)]
        ELSE IF temps = <<>>
        THEN [st |-> s2,
              out |-> Returned(<<"Sensor analysis: ", ToString(Len(batch)),
                                 " readings processed">>)]
        ELSE [st |-> s2,
              out |-> Returned(<<"Sensor analysis: ", ToString(Len(batch)),
                                 " readings processed, avg temp: ", Fmt1(avg_temp), "Â°C">>)]

\* faulty variant of Sign: a net flow of zero is given a plus
SignOfZeroPlus(net_flow) == IF net_flow.v >= 0 THEN "+" ELSE "-"

\* sign of TransactionStream.process_batch
Sign(net_flow) == IF net_flow.v > 0 THEN "+" ELSE IF net_flow.v < 0 THEN "-" ELSE ""

\* faulty variant of TransactionProcessBatch: a batch counts as one
TransactionProcessBatchByOne(s, batch) ==
    LET s1 == [s EXCEPT !.last_batch_count = Len(batch)]
        s2 == [s1 EXCEPT !.processed_count = @ + 1]
        net_flow == PySum(batch)
    IN  IF batch = <<>>
        THEN [st |-> s1, out |-> Returned(<<"Transaction analysis: no transactions">>)]
        ELSE IF ~net_flow.ok
        THEN [st |-> s2, out |-> net_flow]
        ELSE [st |-> s2,
              out |-> Returned(<<"Transaction analysis: ", ToString(Len(batch)),
                                 " operations, net flow: ", Sign(net_flow.val),
                                 NumStr(PyAbs(net_flow.val).val), " units">>)]

\* TransactionStream.process_batch
TransactionProcessBatch(s, batch) ==
    LET s1 == [s EXCEPT !.last_batch_count = Len(batch)]
        s2 == [s1 EXCEPT !.processed_count = @ + Len(batch)]
        net_flow == PySum(batch)
    IN  IF batch = <<>>
        THEN [st |-> s1, out |-> Returned(<<"Transaction analysis: no transactions">>)]
        ELSE IF ~net_flow.ok
        THEN [st |-> s2, out |-> net_flow]
        ELSE [st |-> s2,
              out |-> Returned(<<"Transaction analysis: ", ToString(Len(batch)),
                                 " operations, net flow: ", Sign(net_flow.val),
                                 NumStr(PyAbs(net_flow.val).val), " units">>)]

IsErrorEvent(event) == IsStr(event) /\ Contains(Lower(event.v), <<"e", "r", "r", "o", "r">>)

\* EventStream.process_batch
EventProcessBatch(s, batch) ==
    LET s2 == [s EXCEPT !.processed_count = @ + Len(batch)]
        errors == Len(SelectSeq(batch, IsErrorEvent))
    IN  IF batch = <<>>
        THEN [st |-> s, out |-> Returned(<<"Event analysis: no events">>)]
        ELSE [st |-> s2,
              out |-> Returned(<<"Event analysis: ", ToString(Len(batch)), " events, ",
                                 ToString(errors), " error detected">>)]

process_batch(s, batch) ==
    CASE s.kind = "SensorStream" -> SensorProcessBatch(s, batch)
      [] s.kind = "TransactionStream" -> TransactionProcessBatch(s, batch)
      [] s.kind = "EventStream" -> EventProcessBatch(s, batch)

\* SensorStream.summarize_filtered
SensorSummarizeFiltered(s) ==
    IF s.last_batch_count = 0 THEN None
    ELSE PStr(<<ToString(s.last_batch_count), " critical sensor alerts">>)

\* faulty variant of TransactionSummarizeFiltered: the running total is reported
TransactionSummarizeFilteredTotal(s) ==
    IF s.processed_count = 0 THEN None
    ELSE PStr(<<ToString(s.processed_count), " high-priority transactions">>)

\* TransactionStream.summarize_filtered
TransactionSummarizeFiltered(s) ==
    IF s.last_batch_count = 0 THEN None
    ELSE PStr(<<ToString(s.last_batch_count), " high-priority transactions">>)

\* EventStream.summarize_filtered (as DataStream.summarize_filtered)
EventSummarizeFiltered(s) == None

summarize_filtered(s) ==
    CASE s.kind = "SensorStream" -> SensorSummarizeFiltered(s)
      [] s.kind = "TransactionStream" -> TransactionSummarizeFiltered(s)
      [] s.kind = "EventStream" -> EventSummarizeFiltered(s)

\* StreamProcessor.process_stream: a raise of filter_data leaves before process_batch
process_stream(s, batch, criteria) ==
    LET filtered_batch == filter_data(s, batch, criteria)
    IN  IF filtered_batch.ok
        THEN process_batch(s, filtered_batch.val)
        ELSE [st |-> s, out |-> filtered_batch]

\* --------------------------------------------------------- StreamProcessor

\* faulty variant of ErrorResult: the reason is left out
ErrorResultBare(exc) == <<"Stream error">>

\* the text process_all puts in place of a failed stream's result
ErrorResult(exc) == <<"Stream error: ">> \o exc.msg

\* faulty variant of ZipLen: the last pair is left out
ZipLenShort(n, m) == IF n <= m THEN (IF n > 0 THEN n - 1 ELSE 0) ELSE (IF m > 0 THEN m - 1 ELSE 0)

\* how many pairs zip(self.streams, data_batches) yields
ZipLen(n, m) == IF n <= m THEN n ELSE m

\* faulty variant of ProcessPair: no except clause
ProcessPairNoCatch(sts, reg, data_batches, k) ==
    LET stream == reg[k]
        r == process_stream(sts[stream], data_batches[k], None)
    IN  [sts |-> [sts EXCEPT ![stream] = r.st], out |-> r.out]

\* one turn of the loop of process_all, on the k-th pair: the try block and its
\* except clause.  sts is every stream's fields; the outcome is what the turn
\* appends to results
ProcessPair(sts, reg, data_batches, k) ==
    LET stream == reg[k]
        r == process_stream(sts[stream], data_batches[k], None)
    IN  [sts |-> [sts EXCEPT ![stream] = r.st],
         out |-> IF r.out.ok THEN r.out
                 ELSE Returned(ErrorResult(r.out.exc))]

RECURSIVE ProcessAllFrom(_, _, _, _, _)
ProcessAllFrom(sts, reg, data_batches, k, results) ==
    IF k > ZipLen(Len(reg), Len(data_batches))
    THEN [sts |-> sts, out |-> Returned(results)]
    ELSE LET p == ProcessPair(sts, reg, data_batches, k)
         IN  IF p.out.ok
             THEN ProcessAllFrom(p.sts, reg, data_batches, k + 1, Append(results, p.out.val))
             ELSE [sts |-> p.sts, out |-> p.out]

\* StreamProcessor.process_all
process_all(sts, reg, data_batches) == ProcessAllFrom(sts, reg, data_batches, 1, <<>>)

\* ------------------------------------------------------ history variables

\* what one process_batch call adds to okSum
OkLen(s, batch) == IF process_batch(s, batch).out.ok THEN Len(batch) ELSE 0

RECURSIVE OkLenAll(_, _, _, _)
\* the same over the calls process_all makes on a stream s
OkLenAll(s, reg, data_batches, k) ==
    IF k > ZipLen(Len(reg), Len(data_batches)) THEN 0
    ELSE (IF reg[k] = s.stream_id THEN OkLen(s, data_batches[k]) ELSE 0)
         + OkLenAll(s, reg, data_batches, k + 1)

RECURSIVE SumLen(_, _)
SumLen(data_batches, n) ==
    IF n = 0 THEN 0 ELSE Len(data_batches[n]) + SumLen(data_batches, n - 1)

RECURSIVE TotalCount(_, _)
TotalCount(sts, objs) ==
    IF objs = {} THEN 0
    ELSE LET o == CHOOSE x \in objs : TRUE
         IN  sts[o].processed_count + TotalCount(sts, objs \ {o})

\* ---------------------------------------------------------------- actions

\* stream.process_batch(batch), called directly as main does
ProcessBatch(o, batch) ==
    /\ last.op = "none"
    /\ streams[o].processed_count + Len(batch) <= MaxCount
    /\ LET r == process_batch(streams[o], batch)
       IN  /\ streams' = [streams EXCEPT ![o] = r.st]
           /\ last' = [op |-> "process_batch", obj |-> o, batch |-> batch,
                       pre |-> streams[o], out |-> r.out]
           /\ okSum' = [okSum EXCEPT ![o] = @ + (IF r.out.ok THEN Len(batch) ELSE 0)]
           /\ failed' = [failed EXCEPT ![o] = @ \/ ~r.out.ok]
    /\ UNCHANGED registry

\* processor.process_stream(stream, batch, criteria)
ProcessStream(o, batch, criteria) ==
    /\ last.op = "none"
    /\ streams[o].processed_count + Len(batch) <= MaxCount
    /\ LET f == filter_data(streams[o], batch, criteria)
           r == process_stream(streams[o], batch, criteria)
       IN  /\ streams' = [streams EXCEPT ![o] = r.st]
           /\ last' = [op |-> "process_stream", obj |-> o, batch |-> batch,
                       criteria |-> criteria, pre |-> streams[o], filtered |-> f,
                       out |-> r.out]
           /\ okSum' = [okSum EXCEPT ![o] = @ + (IF r.out.ok THEN Len(f.val) ELSE 0)]
           /\ failed' = [failed EXCEPT ![o] = @ \/ (f.ok /\ ~r.out.ok)]
    /\ UNCHANGED registry

\* faulty variant of FilterData: the elements kept are counted as processed
FilterDataCounting(o, batch, criteria) ==
    /\ last.op = "none"
    /\ LET f == filter_data(streams[o], batch, criteria)
       IN  /\ streams' = [streams EXCEPT ![o].processed_count =
                              @ + (IF f.ok THEN Len(f.val) ELSE 0)]
           /\ last' = [op |-> "filter_data", obj |-> o, batch |-> batch,
                       criteria |-> criteria, pre |-> streams[o], data_batch |-> batch,
                       out |-> f]
    /\ UNCHANGED <<registry, okSum, failed>>

\* stream.filter_data(batch, criteria), called directly: the method reads data_batch
\* and self and assigns to neither, so the caller's list (data_batch, as it is when
\* the call is over) and the stream's fields are as they were
FilterData(o, batch, criteria) ==
    /\ last.op = "none"
    /\ LET f == filter_data(streams[o], batch, criteria)
       IN  last' = [op |-> "filter_data", obj |-> o, batch |-> batch,
                    criteria |-> criteria, pre |-> streams[o], data_batch |-> batch,
                    out |-> f]
    /\ UNCHANGED <<streams, registry, okSum, failed>>

\* processor.add_stream(stream): any stream, registered or not, may be added
AddStream(o) ==
    /\ last.op = "none"
    /\ Len(registry) < MaxStreams
    /\ registry' = Append(registry, o)
    /\ UNCHANGED <<streams, last, okSum, failed>>

\* processor.process_all(data_batches)
ProcessAll(data_batches) ==
    /\ last.op = "none"
    /\ TotalCount(streams, DOMAIN streams) + SumLen(data_batches, Len(data_batches))
           <= MaxTotal
    /\ LET r == process_all(streams, registry, data_batches)
       IN  /\ streams' = r.sts
           /\ last' = [op |-> "process_all", data_batches |-> data_batches,
                       pre |-> streams, out |-> r.out]
           /\ okSum' = [o \in DOMAIN okSum |->
                           okSum[o] + OkLenAll(streams[o], registry, data_batches, 1)]
           /\ failed' = [o \in DOMAIN failed |->
                           \/ failed[o]
                           \/ \E k \in 1..ZipLen(Len(registry), Len(data_batches)) :
                                 /\ registry[k] = o
                                 /\ ~process_batch(streams[o], data_batches[k]).out.ok]
    /\ UNCHANGED registry

\* the caller is done with the result of its last call; the calls of a run are
\* made one after the other, each when the one before has been looked at
Discard ==
    /\ last.op # "none"
    /\ last' = [op |-> "none"]
    /\ UNCHANGED <<streams, registry, okSum, failed>>

\* ----------------------------------------------- ex2: values and stages

\* most stages added to a pipeline
MaxStages == 2
\* most pipelines handed to run_pipeline_chain
MaxPipes == 2
\* most records an arbitrary record source yields
MaxRecords == 2
\* records = record_stream(100) in nexus
DemoCount == 100

\* data.get(key, default)
DictGet(d, key, default) ==
    IF \E i \in 1..Len(d.v) : d.v[i][1] = key
    THEN d.v[CHOOSE i \in 1..Len(d.v) : d.v[i][1] = key][2]
    ELSE default

\* {**data, key: val}: an existing key keeps its place, a new one goes last
DictSet(d, key, val) ==
    IF \E i \in 1..Len(d.v) : d.v[i][1] = key
    THEN PDict([i \in 1..Len(d.v) |-> IF d.v[i][1] = key THEN <<key, val>> ELSE d.v[i]])
    ELSE PDict(Append(d.v, <<key, val>>))

RECURSIVE Repr(_)
RECURSIVE ReprItems(_, _)
RECURSIVE ReprPairs(_, _)
\* repr(x), the comma of a list or dict display a piece of its own
Repr(x) ==
    CASE x.tag = "None" -> <<"None">>
      [] IsNumber(x) -> <<NumStr(x)>>
      [] IsStr(x) -> <<"'">> \o x.v \o <<"'">>
      [] IsList(x) -> <<"[">> \o ReprItems(x.v, 1) \o <<"]">>
      [] IsDict(x) -> <<"{">> \o ReprPairs(x.v, 1) \o <<"}">>

ReprItems(xs, i) ==
    IF i > Len(xs) THEN <<>>
    ELSE (IF i > 1 THEN <<",", " ">> ELSE <<>>) \o Repr(xs[i]) \o ReprItems(xs, i + 1)

ReprPairs(items, i) ==
    IF i > Len(items) THEN <<>>
    ELSE (IF i > 1 THEN <<",", " ">> ELSE <<>>)
         \o <<"'", items[i][1], "'", ": ">> \o Repr(items[i][2]) \o ReprPairs(items, i + 1)

\* str(x), what an f-string field prints
Str(x) == IF IsStr(x) THEN x.v ELSE Repr(x)

\* "," in data
HasComma(data) == \E i \in 1..Len(data.v) : data.v[i] = ","

RECURSIVE SplitFrom(_, _, _)
\* data.split(","): cur is the part being read
SplitFrom(s, i, cur) ==
    IF i > Len(s) THEN <<PStr(cur)>>
    ELSE IF s[i] = "," THEN <<PStr(cur)>> \o SplitFrom(s, i + 1, <<>>)
    ELSE SplitFrom(s, i + 1, Append(cur, s[i]))

Split(data) == SplitFrom(data.v, 1, <<>>)

\* record_stream: the i-th record it yields, i from 0
RecordOf(i) ==
    PDict(<< <<"sensor", PStr(<<"temp">>)>>, <<"value", PInt(20 + (i % 5))>>,
             <<"unit", PStr(<<"C">>)>> >>)

\* InputStage.process
InputStageProcess(data) == Returned(data)

\* faulty variant of StreamAvg: the division is made whatever count is
StreamAvgUnguarded(data, count) ==
    IF count = 0 THEN Raised("ZeroDivisionError", <<"division by zero">>)
    ELSE LET total == PySum(data).val
         IN  Returned(PFloat(RoundDiv(IF IsInt(total) THEN 10 * total.v ELSE total.v, count)))

\* avg of the STREAM path: sum(data) / count if count else 0, then round(avg, 1)
StreamAvg(data, count) ==
    IF count = 0 THEN Returned(PInt(0))
    ELSE LET total == PySum(data).val
         IN  Returned(PFloat(RoundDiv(IF IsInt(total) THEN 10 * total.v ELSE total.v, count)))

\* TransformStage.process
TransformStageProcess(data) ==
    IF IsDict(data)
    THEN Returned(DictSet(data, "range", PStr(<<"Normal">>)))
    ELSE IF IsStr(data) /\ HasComma(data)
    THEN Returned(PDict(<< <<"type", PStr(<<"csv">>)>>, <<"fields", PList(Split(data))>>,
                           <<"count", PInt(1)>> >>))
    ELSE IF IsList(data) /\ \A i \in 1..Len(data.v) : IsNumber(data.v[i])
    THEN LET count == Len(data.v)
             avg == StreamAvg(data.v, count)
         IN  IF avg.ok
             THEN Returned(PDict(<< <<"type", PStr(<<"stream">>)>>, <<"count", PInt(count)>>,
                                    <<"avg", avg.val>> >>))
             ELSE avg
    ELSE Returned(data)

\* OutputStage.process
OutputStageProcess(data) ==
    IF IsDict(data) /\ DictGet(data, "type", None) = PStr(<<"stream">>)
    THEN Returned(PStr(<<"Stream summary: ">> \o Str(DictGet(data, "count", PInt(0)))
                       \o <<" readings", ",", " avg: ">>
                       \o Str(DictGet(data, "avg", PInt(0))) \o <<"°C">>))
    ELSE IF IsDict(data) /\ DictGet(data, "type", None) = PStr(<<"csv">>)
    THEN Returned(PStr(<<"User activity logged: ">> \o Str(DictGet(data, "count", PInt(0)))
                       \o <<" actions processed">>))
    ELSE IF IsDict(data)
    THEN Returned(PStr(<<"Processed temperature reading: ">>
                       \o Str(DictGet(data, "value", None)) \o <<"°">>
                       \o Str(DictGet(data, "unit", None)) \o <<" (">>
                       \o Str(DictGet(data, "range", PStr(<<"Unknown">>))) \o <<" range)">>))
    ELSE Returned(PStr(<<"Result: ">> \o Str(data)))

\* the stage classes; "ProcessingStage" stands for any other class that
\* conforms to the protocol, whose process may return anything or raise
StageKinds == {"InputStage", "TransformStage", "OutputStage", "ProcessingStage"}

\* what a protocol-conforming stage of another class may do
ProtocolOutcomes ==
    {Returned(None), Returned(PList(<<>>)), Returned(PStr(<<"a", ",", "b">>)),
     Raised("ValueError", <<"Critical data corruption">>)}

\* the outcomes stage.process(data) can have
StageOutcomes(stage, data) ==
    CASE stage = "InputStage" -> {InputStageProcess(data)}
      [] stage = "TransformStage" -> {TransformStageProcess(data)}
      [] stage = "OutputStage" -> {OutputStageProcess(data)}
      [] stage = "ProcessingStage" -> ProtocolOutcomes

\* the inputs given to a pipeline, and the records of an arbitrary source
Values ==
    {None, RecordOf(0), PDict(<<>>), PStr(<<"user", ",", "action">>), PStr(<<"hello">>),
     PList(<<>>), PList(<<PFloat(215), PFloat(220)>>), PList(<<PInt(1), PInt(2)>>),
     PList(<<PInt(1), PStr(<<"a">>)>>), PInt(42)}

\* the three adapters of nexus, each with its three stages
DemoStages == <<"InputStage", "TransformStage", "OutputStage">>

\* ----------------------------------------- ex2: ProcessingPipeline.process

Pending == [pending |-> TRUE]

NoRun == [pc |-> "idle"]

\* the frame of a call pipelines[p].process(data): result = data, before the loop
NewRun(p, data) ==
    [pc |-> "loop", p |-> p, input |-> data, result |-> data, k |-> 1, calls |-> <<>>,
     out |-> Pending]

\* a turn of the loop that finds result is None: return None
LoopNone(r, stages) ==
    /\ r.k <= Len(stages)
    /\ r.result = None
    /\ run' = [r EXCEPT !.pc = "returned", !.out = Returned(None)]

\* faulty variant of LoopStage: the stage is called without the None test
LoopStageUnchecked(r, stages) ==
    /\ r.k <= Len(stages)
    /\ \E o \in StageOutcomes(stages[r.k], r.result) :
           LET c == [k |-> r.k, arg |-> r.result, out |-> o]
           IN  IF o.ok
               THEN run' = [r EXCEPT !.result = o.val, !.k = @ + 1, !.calls = Append(@, c)]
               ELSE run' = [r EXCEPT !.pc = "raised", !.out = o, !.calls = Append(@, c)]

\* a turn of the loop that calls the stage: result = stage.process(result); a
\* raise leaves process.  calls records each stage called, with what and to what end
LoopStage(r, stages) ==
    /\ r.k <= Len(stages)
    /\ r.result # None
    /\ \E o \in StageOutcomes(stages[r.k], r.result) :
           LET c == [k |-> r.k, arg |-> r.result, out |-> o]
           IN  IF o.ok
               THEN run' = [r EXCEPT !.result = o.val, !.k = @ + 1, !.calls = Append(@, c)]
               ELSE run' = [r EXCEPT !.pc = "raised", !.out = o, !.calls = Append(@, c)]

\* after the last stage: return result
LoopEnd(r, stages) ==
    /\ r.k > Len(stages)
    /\ run' = [r EXCEPT !.pc = "returned", !.out = Returned(r.result)]

\* one step of ProcessingPipeline.process (the adapters' process adds prints only)
PipelineStep ==
    /\ run.pc = "loop"
    /\ \/ LoopNone(run, pipelines[run.p])
       \/ LoopStage(run, pipelines[run.p])
       \/ LoopEnd(run, pipelines[run.p])
    /\ UNCHANGED <<pipelines, chain>>

\* pipeline.process(data), called from outside a chain
Call(p, data) ==
    /\ chain.pc = "off"
    /\ run.pc # "loop"
    /\ run' = NewRun(p, data)
    /\ UNCHANGED <<pipelines, chain>>

\* --------------------------------------------- ex2: run_pipeline_chain

NoChain == [pc |-> "off"]

\* run_pipeline_chain(pipelines, records) up to the loop: processed = 0.  src is
\* the record source (record_stream or some other iterable), n what it yields
ChainStart(src, n) ==
    /\ chain.pc = "off"
    /\ run.pc = "idle"
    /\ chain' = [pc |-> "records", src |-> src, n |-> n, i |-> 0, record |-> None,
                 data |-> None, j |-> 1, processed |-> 0, fed |-> <<>>, rets |-> <<>>,
                 out |-> Pending]
    /\ UNCHANGED <<pipelines, run>>

\* for record in records: data = record
ChainRecord ==
    /\ chain.pc = "records"
    /\ chain.i < chain.n
    /\ \E rec \in (IF chain.src = "record_stream" THEN {RecordOf(chain.i)} ELSE Values) :
           chain' = [chain EXCEPT !.pc = "pipes", !.i = @ + 1, !.record = rec, !.data = rec,
                                  !.j = 1, !.fed = <<>>, !.rets = <<>>]
    /\ UNCHANGED <<pipelines, run>>

\* for pipeline in pipelines: the call pipeline.process(data)
ChainCall ==
    /\ chain.pc = "pipes"
    /\ chain.j <= Len(pipelines)
    /\ run' = NewRun(chain.j, chain.data)
    /\ chain' = [chain EXCEPT !.pc = "in_pipe", !.fed = Append(@, <<chain.j, chain.data>>)]
    /\ UNCHANGED pipelines

\* data = <what the call returned>
ChainResume ==
    /\ chain.pc = "in_pipe"
    /\ run.pc = "returned"
    /\ chain' = [chain EXCEPT !.pc = "pipes", !.data = run.out.val, !.j = @ + 1,
                              !.rets = Append(@, run.out.val)]
    /\ UNCHANGED <<pipelines, run>>

\* the call raised: nothing in run_pipeline_chain catches it
ChainRaise ==
    /\ chain.pc = "in_pipe"
    /\ run.pc = "raised"
    /\ chain' = [chain EXCEPT !.pc = "raised", !.out = run.out]
    /\ UNCHANGED <<pipelines, run>>

\* faulty variant of CountAfter: a record that came out as None is not counted
CountAfterSkipNone(processed, data) == IF data = None THEN processed ELSE processed + 1

\* processed += 1, whatever data the last pipeline left
CountAfter(processed, data) == processed + 1

\* after the last pipeline: processed += 1
ChainCount ==
    /\ chain.pc = "pipes"
    /\ chain.j > Len(pipelines)
    /\ chain' = [chain EXCEPT !.pc = "records", !.processed = CountAfter(@, chain.data)]
    /\ UNCHANGED <<pipelines, run>>

\* the source is exhausted: return processed (with the duration measured)
ChainReturn ==
    /\ chain.pc = "records"
    /\ chain.i = chain.n
    /\ chain' = [chain EXCEPT !.pc = "returned", !.out = Returned(chain.processed)]
    /\ UNCHANGED <<pipelines, run>>

\* ------------------------------------------------ ex0: the data processors

Processors == {"NumericProcessor", "TextProcessor", "LogProcessor"}

\* NumericProcessor.validate
NumericValidate(data) ==
    /\ IsList(data)
    /\ Len(data.v) > 0
    /\ \A i \in 1..Len(data.v) : IsNumber(data.v[i])

\* total / count in tenths; the lists of the model have averages of one decimal,
\* which str() of the float prints in full
TrueDiv(total, count) == (IF IsInt(total) THEN 10 * total.v ELSE total.v) \div count

\* NumericProcessor.process, on a non-empty list of numbers
NumericProcess(data) ==
    LET count == Len(data.v)
        total == PySum(data.v).val
        avg == TrueDiv(total, count)
    IN  Returned(<<"Processed ", ToString(count), " numeric values, sum=", NumStr(total),
                   ", avg=", Fmt1(avg)>>)

\* TextProcessor.validate
TextValidate(data) == IsStr(data)

\* len(s.split()): the runs of characters that are not spaces
WordCount(s) ==
    Cardinality({i \in 1..Len(s) : s[i] # " " /\ (i = 1 \/ s[i - 1] = " ")})

\* TextProcessor.process, on a str
TextProcess(data) ==
    Returned(<<"Processed text: ", ToString(Len(data.v)), " characters, ",
               ToString(WordCount(data.v)), " words">>)

\* the levels LogProcessor.validate looks for
Levels == {<<"E", "R", "R", "O", "R">>,
           <<"I", "N", "F", "O">>,
           <<"D", "E", "B", "U", "G">>,
           <<"W", "A", "R", "N", "I", "N", "G">>}

\* LogProcessor.validate
LogValidate(data) == IsStr(data) /\ \E level \in Levels : Contains(data.v, level)

\* where the first ":" of s is, or 0
FirstColon(s) ==
    IF \E i \in 1..Len(s) : s[i] = ":"
    THEN CHOOSE i \in 1..Len(s) : s[i] = ":" /\ \A j \in 1..(i - 1) : s[j] # ":"
    ELSE 0

\* s.strip(), the spaces at both ends taken off
Strip(s) ==
    LET kept == {i \in 1..Len(s) : s[i] # " "}
    IN  IF kept = {} THEN <<>>
        ELSE SubSeq(s, CHOOSE i \in kept : \A j \in kept : i <= j,
                       CHOOSE i \in kept : \A j \in kept : i >= j)

\* LogProcessor.process, on a str: data.split(":", 1) gives one part when data has
\* no ":", and unpacking one part into level, message raises ValueError
LogProcess(data) ==
    LET k == FirstColon(data.v)
        level == Strip(SubSeq(data.v, 1, k - 1))
        message == Strip(SubSeq(data.v, k + 1, Len(data.v)))
        label == IF level = <<"E", "R", "R", "O", "R">> THEN "ALERT" ELSE "INFO"
    IN  IF k = 0
        THEN Raised("ValueError", <<"not enough values to unpack (expected 2, got 1)">>)
        ELSE Returned(<<"[", label, "] ">> \o level \o <<" level detected: ">> \o message)

validate(p, data) ==
    CASE p = "NumericProcessor" -> NumericValidate(data)
      [] p = "TextProcessor" -> TextValidate(data)
      [] p = "LogProcessor" -> LogValidate(data)

process(p, data) ==
    CASE p = "NumericProcessor" -> NumericProcess(data)
      [] p = "TextProcessor" -> TextProcess(data)
      [] p = "LogProcessor" -> LogProcess(data)

\* the most segments a text is made of
MaxSegments == 3

\* what the texts given to the processors are made of
Segments == {<<"E", "R", "R", "O", "R">>, <<"I", "N", "F", "O">>, <<":">>, <<" ">>, <<"o", "k">>}

RECURSIVE Flatten(_, _)
\* the first n of the segments ss, one after the other
Flatten(ss, n) == IF n = 0 THEN <<>> ELSE Flatten(ss, n - 1) \o ss[n]

Texts == {PStr(Flatten(ss, Len(ss))) : ss \in SeqsUpTo(Segments, MaxSegments)}

\* the lists given to the processors: main's, one with a float, an empty one and
\* one that holds a str
Lists ==
    {PList(<<PInt(1), PInt(2), PInt(3), PInt(4), PInt(5)>>),
     PList(<<PInt(1), PInt(2), PInt(3)>>),
     PList(<<PInt(1), PFloat(20)>>),
     PList(<<>>),
     PList(<<PInt(1), PStr(<<"o", "k">>)>>)}

Samples == Texts \cup Lists \cup {None, PInt(1)}

\* mixed_samples of main's second loop
MixedSample(p) ==
    CASE p = "NumericProcessor" -> PList(<<PInt(1), PInt(2), PInt(3)>>)
      [] p = "TextProcessor" -> PStr(<<"H", "e", "l", "l", "o", " ", "N", "e", "x", "u", "s">>)
      [] p = "LogProcessor" -> PStr(<<"I", "N", "F", "O", ":", " ", "S", "y", "s", "t", "e", "m", " ", "r", "e", "a", "d", "y">>)

\* processor.validate(data), the first call of main's first loop on a sample
Validate(p, data) ==
    /\ last.op = "none"
    /\ last' = [op |-> "validate", proc |-> p, data |-> data, out |-> validate(p, data)]
    /\ UNCHANGED <<streams, registry, okSum, failed>>

\* processor.process(data) of main's first loop, reached when validate has said True
ProcessValidated ==
    /\ last.op = "validate"
    /\ last.out
    /\ last' = [op |-> "process", proc |-> last.proc, data |-> last.data,
                validated |-> TRUE, out |-> process(last.proc, last.data)]
    /\ UNCHANGED <<streams, registry, okSum, failed>>

\* processor.process(sample) of main's second loop, made without validate
ProcessSample(p) ==
    /\ last.op = "none"
    /\ last' = [op |-> "process", proc |-> p, data |-> MixedSample(p),
                validated |-> FALSE, out |-> process(p, MixedSample(p))]
    /\ UNCHANGED <<streams, registry, okSum, failed>>

\* --------------------------------------------------------- specifications

\* no stream and no processor call yet
IdleStreams ==
    /\ streams = <<>>
    /\ registry = <<>>
    /\ last = [op |-> "none"]
    /\ okSum = <<>>
    /\ failed = <<>>

\* no pipeline built
IdlePipelines ==
    /\ pipelines = <<>>
    /\ run = NoRun
    /\ chain = NoChain

\* one stream of any variant, freshly constructed, driven directly
InitStream ==
    /\ \E k \in Kinds : streams = [o \in {StreamIdOf(k)} |-> NewStream(k)]
    /\ registry = <<>>
    /\ last = [op |-> "none"]
    /\ okSum = [o \in DOMAIN streams |-> 0]
    /\ failed = [o \in DOMAIN streams |-> FALSE]
    /\ IdlePipelines

NextStream ==
    \/ /\ \E o \in DOMAIN streams, batch \in Batches : ProcessBatch(o, batch)
       /\ UNCHANGED pvars
    \/ /\ \E o \in DOMAIN streams, batch \in Batches, criteria \in Criterias :
              ProcessStream(o, batch, criteria)
       /\ UNCHANGED pvars
    \/ /\ \E o \in DOMAIN streams, batch \in Batches, criteria \in Criterias :
              FilterData(o, batch, criteria)
       /\ UNCHANGED pvars
    \/ /\ Discard
       /\ UNCHANGED pvars

SpecStream == InitStream /\ [][NextStream]_vars

\* the three processors of ex0's main, which keep no state, and no call made
InitProc ==
    /\ IdleStreams
    /\ IdlePipelines

NextProc ==
    \/ /\ \E p \in Processors, data \in Samples : Validate(p, data)
       /\ UNCHANGED pvars
    \/ /\ ProcessValidated
       /\ UNCHANGED pvars
    \/ /\ \E p \in Processors : ProcessSample(p)
       /\ UNCHANGED pvars
    \/ /\ Discard
       /\ UNCHANGED pvars

SpecProc == InitProc /\ [][NextProc]_vars

\* the longest batch of amounts
MaxInts == 3

\* the amounts of main's transaction batches
Amounts == {PInt(100), PInt(-150), PInt(75), PInt(-100)}

IntBatches == SeqsUpTo(Amounts, MaxInts)

\* one TransactionStream, freshly constructed, given batches of integers
InitFlow ==
    /\ streams = [o \in {StreamIdOf("TransactionStream")} |-> NewStream("TransactionStream")]
    /\ registry = <<>>
    /\ last = [op |-> "none"]
    /\ okSum = [o \in DOMAIN streams |-> 0]
    /\ failed = [o \in DOMAIN streams |-> FALSE]
    /\ IdlePipelines

NextFlow ==
    \/ /\ \E o \in DOMAIN streams, batch \in IntBatches : ProcessBatch(o, batch)
       /\ UNCHANGED pvars
    \/ /\ Discard
       /\ UNCHANGED pvars

SpecFlow == InitFlow /\ [][NextFlow]_vars

\* the three scenario streams of main and an empty StreamProcessor
InitAll ==
    /\ streams = [o \in {StreamIdOf(k) : k \in Kinds} |->
                     NewStream(CHOOSE k \in Kinds : StreamIdOf(k) = o)]
    /\ registry = <<>>
    /\ last = [op |-> "none"]
    /\ okSum = [o \in DOMAIN streams |-> 0]
    /\ failed = [o \in DOMAIN streams |-> FALSE]
    /\ IdlePipelines

\* the batches handed to process_all: an empty one, and a single float, int or str
UnitBatches ==
    {<<>>, <<PFloat(225)>>, <<PInt(100)>>, <<PStr(<<"E", "r", "r", "o", "r">>)>>}

NextAll ==
    \/ /\ \E o \in DOMAIN streams : AddStream(o)
       /\ UNCHANGED pvars
    \/ /\ \E data_batches \in SeqsUpTo(UnitBatches, MaxBatches) : ProcessAll(data_batches)
       /\ UNCHANGED pvars
    \/ /\ Discard
       /\ UNCHANGED pvars

SpecAll == InitAll /\ [][NextAll]_vars

\* one pipeline with any stages, given inputs one after the other
InitPipe ==
    /\ IdleStreams
    /\ \E stages \in SeqsUpTo(StageKinds, MaxStages) : pipelines = <<stages>>
    /\ run = NoRun
    /\ chain = NoChain

NextPipe ==
    \/ /\ \E data \in Values : Call(1, data)
       /\ UNCHANGED svars
    \/ /\ PipelineStep
       /\ UNCHANGED svars

SpecPipe == InitPipe /\ [][NextPipe]_vars

\* the stage lists of the pipelines that are chained
ChainStages == {DemoStages, <<"ProcessingStage">>, <<>>}

\* nexus: the three adapters registered with the manager
DemoPipelines == <<DemoStages, DemoStages, DemoStages>>

InitChain ==
    /\ IdleStreams
    /\ pipelines \in SeqsUpTo(ChainStages, MaxPipes) \cup {DemoPipelines}
    /\ run = NoRun
    /\ chain = NoChain

NextChain ==
    \/ /\ \E n \in 0..MaxRecords : ChainStart("iterable", n)
       /\ UNCHANGED svars
    \/ /\ \E n \in (0..MaxRecords) \cup {DemoCount} : ChainStart("record_stream", n)
       /\ UNCHANGED svars
    \/ /\ ChainRecord
       /\ UNCHANGED svars
    \/ /\ ChainCall
       /\ UNCHANGED svars
    \/ /\ PipelineStep
       /\ UNCHANGED svars
    \/ /\ ChainResume
       /\ UNCHANGED svars
    \/ /\ ChainRaise
       /\ UNCHANGED svars
    \/ /\ ChainCount
       /\ UNCHANGED svars
    \/ /\ ChainReturn
       /\ UNCHANGED svars

SpecChain == InitChain /\ [][NextChain]_vars

\* ------------------------------------------------------------- properties

\* the calls of the ProcessingPipeline.process call at hand
Calls == IF run.pc = "idle" THEN <<>> ELSE run.calls

ReturnedNone(c) == c.out.ok /\ c.out.val = None

\* C1: in ProcessingPipeline.process no stage is ever called with None; once a
\* stage has returned None no later stage is called; with None as input no stage
\* is called at all; and in both cases what process returns is None, never an error
C1_ShortCircuit ==
    /\ \A i \in 1..Len(Calls) : Calls[i].arg # None
    /\ \A i \in 1..Len(Calls) : Calls[i].k = i
    /\ \A i \in 1..Len(Calls) : ReturnedNone(Calls[i]) => i = Len(Calls)
    /\ (run.pc # "idle" /\ run.input = None) => Calls = <<>>
    /\ (run.pc \in {"returned", "raised"}
        /\ (run.input = None \/ \E i \in 1..Len(Calls) : ReturnedNone(Calls[i])))
       => run.out = Returned(None)

\* C1 witness: the first of two stages returned None, the second was never
\* called and process returned None
C1_Witness ==
    /\ run.pc = "returned"
    /\ Len(pipelines[run.p]) = 2
    /\ run.input # None
    /\ Len(run.calls) = 1
    /\ ReturnedNone(run.calls[1])
    /\ run.out = Returned(None)

\* the calls of TransformStage.process on an empty list
EmptyListCalls ==
    {i \in 1..Len(Calls) :
        pipelines[run.p][Calls[i].k] = "TransformStage" /\ Calls[i].arg = PList(<<>>)}

\* C10 as stated: TransformStage.process on an empty numeric list fails, and the
\* error leaves the pipeline's process uncaught
C10_EmptyAverageRaises ==
    \A i \in EmptyListCalls :
        /\ ~Calls[i].out.ok
        /\ run.pc = "raised"
        /\ run.out = Calls[i].out

\* C10 amended: TransformStage.process on an empty numeric list returns the
\* aggregate with count 0 and avg 0 and the pipeline goes on; an error a stage
\* does raise leaves the pipeline's process uncaught, as the last call made
C10_EmptyAverageIsZero ==
    /\ \A i \in EmptyListCalls :
           Calls[i].out = Returned(PDict(<< <<"type", PStr(<<"stream">>)>>,
                                            <<"count", PInt(0)>>, <<"avg", PInt(0)>> >>))
    /\ \A i \in 1..Len(Calls) :
           ~Calls[i].out.ok => /\ i = Len(Calls)
                               /\ run.pc = "raised"
                               /\ run.out = Calls[i].out
    /\ (run.pc = "raised") => (Calls # <<>> /\ ~Calls[Len(Calls)].out.ok)

\* C10 witness: a pipeline whose TransformStage was given an empty list has
\* gone on to its OutputStage and returned the summary of no readings
C10_Witness ==
    /\ run.pc = "returned"
    /\ pipelines[run.p] = <<"TransformStage", "OutputStage">>
    /\ run.input = PList(<<>>)
    /\ Len(run.calls) = 2
    /\ run.out = Returned(PStr(<<"Stream summary: ", "0", " readings", ",", " avg: ",
                                 "0", "°C">>))

\* C5: run_pipeline_chain calls the pipelines in the order given, the first on
\* the record and each next one on what the one before returned; processed is
\* the number of records gone through all pipelines, whatever they returned;
\* and it returns the number of records the source yields
C5_ChainCounts ==
    chain.pc # "off" =>
        /\ \A k \in 1..Len(chain.fed) :
               /\ chain.fed[k][1] = k
               /\ chain.fed[k][2] = (IF k = 1 THEN chain.record ELSE chain.rets[k - 1])
        /\ chain.pc \in {"records", "returned"} =>
               /\ chain.processed = chain.i
               /\ chain.i > 0 => /\ Len(chain.fed) = Len(pipelines)
                                 /\ Len(chain.rets) = Len(pipelines)
        /\ chain.pc \in {"pipes", "in_pipe", "raised"} => chain.processed = chain.i - 1
        /\ chain.pc = "returned" => chain.out = Returned(chain.n)

\* C5 witness: the chain over record_stream(100) has returned 100, the first
\* pipeline having returned None for the last record and a second one run after it
C5_Witness ==
    /\ chain.pc = "returned"
    /\ chain.src = "record_stream"
    /\ chain.n = DemoCount
    /\ chain.out = Returned(DemoCount)
    /\ Len(chain.rets) = 2
    /\ chain.rets[1] = None

\* the stream the call at hand was made on, as it is now
Target == streams[last.obj]

\* the batch the process_batch of the call at hand was given
BatchGiven == IF last.op = "process_stream" THEN last.filtered.val ELSE last.batch

\* the call at hand ran process_batch on one stream and returned
BatchReturned ==
    /\ last.op \in {"process_batch", "process_stream"}
    /\ last.out.ok

\* C2: a process_batch that returns has added len(batch) to processed_count
\* (nothing for an empty batch); processed_count never goes down; and as long as
\* no call on a stream has raised, its processed_count is the sum of the lengths
\* of the batches it has processed
C2_CountAddsLen ==
    /\ BatchReturned =>
           Target.processed_count = last.pre.processed_count + Len(BatchGiven)
    /\ last.op \in {"process_batch", "process_stream"} =>
           Target.processed_count >= last.pre.processed_count
    /\ \A o \in DOMAIN streams :
           /\ streams[o].processed_count >= okSum[o]
           /\ ~failed[o] => streams[o].processed_count = okSum[o]

\* C2 witness: a TransactionStream that had processed a batch before has
\* processed a batch of two more
C2_Witness ==
    /\ last.op = "process_batch"
    /\ last.out.ok
    /\ Target.kind = "TransactionStream"
    /\ Len(last.batch) = 2
    /\ last.pre.processed_count = 2
    /\ Target.processed_count = 4
    /\ okSum[last.obj] = 4

\* the tenths of a number
Tenths(x) == IF IsInt(x) THEN 10 * x.v ELSE x.v

\* the report of a sensor batch whose average is taken over the elements xs
SensorReport(batch, xs) ==
    IF xs = <<>>
    THEN <<"Sensor analysis: ", ToString(Len(batch)), " readings processed">>
    ELSE <<"Sensor analysis: ", ToString(Len(batch)), " readings processed, avg temp: ",
           Fmt1(RoundDiv(Tenths(PySum(xs).val), Len(xs))), "Â°C">>

\* SensorStream.process_batch has been called on a batch that is not empty
SensorCall ==
    /\ last.op = "process_batch"
    /\ Target.kind = "SensorStream"
    /\ last.batch # <<>>

\* C7 as stated: the average SensorStream.process_batch reports is that of all
\* the numbers of the batch, ints as well as floats, and it is left out only
\* when the batch holds no number
C7_AverageOfNumbers ==
    SensorCall => last.out = Returned(SensorReport(last.batch, SelectSeq(last.batch, IsNumber)))

\* C7 amended: the average is that of the floats of the batch alone (ints and
\* other elements count in the size only), and it is left out when the batch
\* holds no float
C7_AverageOfFloats ==
    SensorCall => last.out = Returned(SensorReport(last.batch, SelectSeq(last.batch, IsFloat)))

\* C7 witness: a batch of a float and an int, reported with the float as average
C7_Witness ==
    /\ SensorCall
    /\ last.batch = <<PFloat(225), PInt(100)>>
    /\ last.out = Returned(<<"Sensor analysis: ", "2", " readings processed, avg temp: ",
                             "22.5", "Â°C">>)

\* TransactionStream.filter_data has been called with high_priority on numbers
HighPriorityCall ==
    /\ last.op = "process_stream"
    /\ Target.kind = "TransactionStream"
    /\ last.criteria = PStr(<<"high_priority">>)
    /\ \A i \in 1..Len(last.batch) : IsNumber(last.batch[i])

Above(x) == Abs(Tenths(x)) > 10 * Threshold
AtLeast(x) == Abs(Tenths(x)) >= 10 * Threshold

\* C8 as stated: high_priority keeps, in order, the elements of magnitude above
\* 100, and drops one of magnitude 100
C8_KeepsAbove ==
    HighPriorityCall => last.filtered = Returned(SelectSeq(last.batch, Above))

\* C8 amended: high_priority keeps, in order, the elements of magnitude 100 or
\* more; one of magnitude 100 is kept
C8_KeepsAtLeast ==
    HighPriorityCall => last.filtered = Returned(SelectSeq(last.batch, AtLeast))

\* C8 witness: of a smaller element and one of magnitude 100, the second is kept
C8_Witness ==
    /\ HighPriorityCall
    /\ last.batch = <<PFloat(225), PInt(100)>>
    /\ last.filtered = Returned(<<PInt(100)>>)

\* the words summarize_filtered puts after the count
AlertWords(s) ==
    IF s.kind = "SensorStream" THEN " critical sensor alerts"
    ELSE " high-priority transactions"

\* process_stream has returned on a SensorStream or a TransactionStream
FilteredCall ==
    /\ last.op = "process_stream"
    /\ last.out.ok
    /\ Target.kind # "EventStream"

\* an EventStream never gives a filtered summary
EventNever ==
    \A o \in DOMAIN streams :
        streams[o].kind = "EventStream" => summarize_filtered(streams[o]) = None

\* C9 as stated: after process_stream, summarize_filtered gives the number of
\* elements filter_data kept; for an EventStream it always gives None
C9_ReportsCount ==
    /\ FilteredCall =>
           summarize_filtered(Target)
               = PStr(<<ToString(Len(last.filtered.val)), AlertWords(Target)>>)
    /\ EventNever

\* C9 amended: after process_stream has returned, summarize_filtered gives the
\* number of elements filter_data kept when there is one at least and None when
\* there is none; for an EventStream it always gives None
C9_ReportsCountOrNone ==
    /\ FilteredCall =>
           summarize_filtered(Target)
               = (IF last.filtered.val = <<>> THEN None
                  ELSE PStr(<<ToString(Len(last.filtered.val)), AlertWords(Target)>>))
    /\ EventNever

\* C9 witness: high_priority has kept one element of two on a TransactionStream
\* that had processed others before, and the summary counts that one
C9_Witness ==
    /\ FilteredCall
    /\ Target.kind = "TransactionStream"
    /\ last.pre.processed_count > 0
    /\ Len(last.batch) = 2
    /\ Len(last.filtered.val) = 1
    /\ summarize_filtered(Target) = PStr(<<"1", " high-priority transactions">>)

\* ----------------------------------------------- properties of process_all

\* the pairs process_all goes through
Pairs == 1..(IF Len(registry) <= Len(last.data_batches)
             THEN Len(registry) ELSE Len(last.data_batches))

\* what the k-th registered stream makes of the k-th batch
PairOutcome(k) == process_stream(last.pre[registry[k]], last.data_batches[k], None).out

IsErrorMarker(text) == Len(text) >= 1 /\ text[1] = "Stream error: "

\* C3: process_all never raises; its list has one entry per pair; the entry of
\* a pair whose stream failed is an error marker and that of every other pair is
\* what its stream returned, also for the pairs after a failed one
C3_FailureIsolated ==
    last.op = "process_all" =>
        /\ last.out.ok
        /\ Len(last.out.val) = Cardinality(Pairs)
        /\ \A k \in Pairs :
               IF PairOutcome(k).ok
               THEN /\ last.out.val[k] = PairOutcome(k).val
                    /\ ~IsErrorMarker(last.out.val[k])
               ELSE IsErrorMarker(last.out.val[k])

\* C3 witness: of two pairs the first stream failed and the second returned
C3_Witness ==
    /\ last.op = "process_all"
    /\ Len(registry) = 2
    /\ Len(last.data_batches) = 2
    /\ last.out.ok
    /\ ~PairOutcome(1).ok
    /\ IsErrorMarker(last.out.val[1])
    /\ PairOutcome(2).ok
    /\ last.out.val[2] = PairOutcome(2).val
    /\ streams[registry[2]].processed_count = last.pre[registry[2]].processed_count + 1

\* the list process_all returns: as many results as the shorter of the streams
\* and the batches, the k-th from the k-th stream on the k-th batch
PairedResults ==
    /\ last.out.ok
    /\ Len(last.out.val) = Cardinality(Pairs)
    /\ \A k \in Pairs :
           last.out.val[k] = (IF PairOutcome(k).ok THEN PairOutcome(k).val
                              ELSE <<"Stream error: ">> \o PairOutcome(k).exc.msg)

\* C4 as stated: besides, the streams registered beyond the last pair are as
\* they were before the call
C4_BeyondUntouched ==
    last.op = "process_all" =>
        /\ PairedResults
        /\ \A k \in 1..Len(registry) :
               k \notin Pairs => streams[registry[k]] = last.pre[registry[k]]

\* C4 amended: besides, the streams that are registered at no position within
\* the pairs are as they were before the call; a stream registered beyond the
\* last pair and also within the pairs is called for its earlier position
C4_UnpairedUntouched ==
    last.op = "process_all" =>
        /\ PairedResults
        /\ \A o \in DOMAIN streams :
               (\A k \in Pairs : registry[k] # o) => streams[o] = last.pre[o]

\* C4 witness: two different streams and one batch: one result, the first
\* stream has processed the batch and the second is as it was
C4_Witness ==
    /\ last.op = "process_all"
    /\ Len(registry) = 2
    /\ registry[1] # registry[2]
    /\ Len(last.data_batches) = 1
    /\ Len(last.out.val) = 1
    /\ streams[registry[1]].processed_count = last.pre[registry[1]].processed_count + 1
    /\ streams[registry[2]] = last.pre[registry[2]]

\* text is among the pieces of the text pieces
Embeds(pieces, text) == \E i \in 1..Len(pieces) : pieces[i] = text

\* pieces holds the pieces of part, in a row
EmbedsAll(pieces, part) ==
    \E i \in 0..(Len(pieces) - Len(part)) :
        \A j \in 1..Len(part) : pieces[i + j] = part[j]

\* C6 as stated: the error text of a failed stream holds the stream's stream_id
\* and the reason of the failure
C6_NamesStream ==
    last.op = "process_all" =>
        \A k \in Pairs :
            ~PairOutcome(k).ok =>
                /\ Embeds(last.out.val[k], streams[registry[k]].stream_id)
                /\ EmbedsAll(last.out.val[k], PairOutcome(k).exc.msg)

\* C6 amended: the error text of a failed stream is "Stream error: " followed
\* by the reason of the failure, the text of the exception; the stream's
\* stream_id is not in it
C6_ReasonOnly ==
    last.op = "process_all" =>
        \A k \in Pairs :
            ~PairOutcome(k).ok =>
                /\ last.out.val[k] = <<"Stream error: ">> \o PairOutcome(k).exc.msg
                /\ PairOutcome(k).exc.msg # <<>>
                /\ ~Embeds(last.out.val[k], streams[registry[k]].stream_id)

\* C6 witness: a TransactionStream given a str has failed, and its entry is the
\* error text with the TypeError's words
C6_Witness ==
    /\ last.op = "process_all"
    /\ Pairs # {}
    /\ streams[registry[1]].kind = "TransactionStream"
    /\ ~PairOutcome(1).ok
    /\ last.out.val[1] = <<"Stream error: ", "unsupported operand type(s) for +: '",
                           "int", "' and 'str'">>

\* ------------------------------------------------------------------- C11

\* the last call was stream.filter_data(batch, criteria)
FilterDataCall == last.op = "filter_data"

\* C11: for every stream variant, batch and criteria, filter_data leaves the
\* stream's processed_count and the batch passed in as they were (whether it
\* returns or raises), and no step changes a processed_count unless it is a call
\* that runs process_batch on that stream, the change being process_batch's own.
C11_OnlyProcessBatchCounts ==
    [][/\ last'.op = "filter_data" =>
            /\ streams'[last'.obj].processed_count = streams[last'.obj].processed_count
            /\ last'.data_batch = last'.batch
       /\ \A o \in DOMAIN streams :
            streams'[o].processed_count # streams[o].processed_count =>
                \/ /\ last'.op = "process_batch"
                   /\ last'.obj = o
                   /\ streams'[o].processed_count =
                          process_batch(streams[o], last'.batch).st.processed_count
                \/ /\ last'.op = "process_stream"
                   /\ last'.obj = o
                   /\ last'.filtered.ok
                   /\ streams'[o].processed_count =
                          process_batch(streams[o], last'.filtered.val).st.processed_count
      ]_vars

\* filter_data has dropped part of a batch on a stream that had counted elements
C11_Witness ==
    /\ FilterDataCall
    /\ last.pre.processed_count > 0
    /\ last.out.ok
    /\ Len(last.out.val) > 0
    /\ Len(last.out.val) < Len(last.batch)
    /\ streams[last.obj] = last.pre

\* ------------------------------------------------------------------- C12

RECURSIVE NetSum(_, _)
\* the net sum of the first n amounts of a batch of integers
NetSum(batch, n) == IF n = 0 THEN 0 ELSE batch[n].v + NetSum(batch, n - 1)

\* the last call was process_batch on a non-empty batch of integers
FlowCall ==
    /\ last.op = "process_batch"
    /\ last.pre.kind = "TransactionStream"
    /\ last.batch # <<>>
    /\ \A i \in 1..Len(last.batch) : IsInt(last.batch[i])

\* the integer that a rendered sign and magnitude stand for
Reconstructed(sign, magnitude, most) ==
    LET m == CHOOSE n \in 0..most : ToString(n) = magnitude
    IN  IF sign = "-" THEN 0 - m ELSE m

\* the largest magnitude an amount has
MostAmount == 150

\* C12: TransactionStream.process_batch on a non-empty batch of integers returns
\* a report whose sign is "+" for a positive net sum, "-" for a negative one and
\* empty for zero, followed by the absolute value of the sum; [100, -150, 75]
\* gives "+" and "25"; sign and magnitude read back give the net sum.
C12_SignAndMagnitude ==
    FlowCall =>
        LET net == NetSum(last.batch, Len(last.batch))
            most == MostAmount * Len(last.batch)
        IN  /\ last.out.ok
            /\ Len(last.out.val) = 6
            /\ last.out.val[1] = "Transaction analysis: "
            /\ last.out.val[2] = ToString(Len(last.batch))
            /\ last.out.val[3] = " operations, net flow: "
            /\ last.out.val[6] = " units"
            /\ last.out.val[4] = "+" <=> net > 0
            /\ last.out.val[4] = "-" <=> net < 0
            /\ last.out.val[4] = "" <=> net = 0
            /\ last.out.val[5] = ToString(Abs(net))
            /\ \E n \in 0..most : ToString(n) = last.out.val[5]
            /\ Reconstructed(last.out.val[4], last.out.val[5], most) = net
            /\ last.batch = <<PInt(100), PInt(-150), PInt(75)>> =>
                   /\ last.out.val[4] = "+"
                   /\ last.out.val[5] = "25"

\* the scenario batch [100, -150, 75] has been reported as +25
C12_Witness ==
    /\ FlowCall
    /\ last.batch = <<PInt(100), PInt(-150), PInt(75)>>
    /\ last.out.ok
    /\ last.out.val[4] = "+"
    /\ last.out.val[5] = "25"

\* a batch whose amounts cancel has been reported without a sign
C12_ZeroReached ==
    /\ FlowCall
    /\ NetSum(last.batch, Len(last.batch)) = 0
    /\ last.out.ok
    /\ last.out.val[4] = ""
    /\ last.out.val[5] = "0"

\* ------------------------------------------------------------------- C13

\* the last call was process(data) made after validate(data) said True
ValidatedCall ==
    /\ last.op = "process"
    /\ last.validated

\* C13: for each DataProcessor variant and every input, when validate(data)
\* returns True, process(data) returns a result string without raising; a string
\* with a log-level keyword and no ":" is accepted by LogProcessor.validate and
\* must then be processed without error.
C13_ValidatedProcesses ==
    ValidatedCall => last.out.ok

\* what the code does: NumericProcessor and TextProcessor process whatever they
\* validate; LogProcessor processes a validated text exactly when it has a ":",
\* and raises ValueError when it has none
C13_LogNeedsColon ==
    ValidatedCall =>
        /\ last.proc \in {"NumericProcessor", "TextProcessor"} => last.out.ok
        /\ last.proc = "LogProcessor" =>
               /\ last.out.ok <=> Contains(last.data.v, <<":">>)
               /\ ~last.out.ok => last.out.exc.type = "ValueError"

\* LogProcessor has validated a text with a level and no ":", and process raised
C13_Witness ==
    /\ ValidatedCall
    /\ last.proc = "LogProcessor"
    /\ last.data = PStr(<<"E", "R", "R", "O", "R">>)
    /\ ~last.out.ok
    /\ last.out.exc.type = "ValueError"

\* ------------------------------------------------------------------- C14

\* the pairs whose result is an error marker and whose stream process_all has
\* called once only, so that what the stream shows afterwards is that call's doing
FailedUnits ==
    {k \in Pairs : /\ IsErrorMarker(last.out.val[k])
                   /\ \A j \in Pairs : registry[j] = registry[k] => j = k}

\* C14: when a stream's process_batch fails inside process_all, the stream is left
\* as it was before the call: processed_count and last_batch_count are unchanged
\* for every unit whose result is an error marker.
C14_FailureLeavesState ==
    last.op = "process_all" =>
        \A k \in FailedUnits :
            /\ streams[registry[k]].processed_count =
                   last.pre[registry[k]].processed_count
            /\ streams[registry[k]].last_batch_count =
                   last.pre[registry[k]].last_batch_count

\* what the code does: the stream that failed has already counted the batch, as
\* processed and as its last batch, when sum() raises
C14_FailureHasCounted ==
    last.op = "process_all" =>
        \A k \in FailedUnits :
            /\ last.data_batches[k] # <<>>
            /\ streams[registry[k]].processed_count =
                   last.pre[registry[k]].processed_count + Len(last.data_batches[k])
            /\ streams[registry[k]].last_batch_count = Len(last.data_batches[k])

\* a TransactionStream given a batch that cannot be summed: its result is an
\* error marker and it has counted the batch all the same
C14_Witness ==
    /\ last.op = "process_all"
    /\ FailedUnits # {}
    /\ \E k \in FailedUnits :
           /\ last.pre[registry[k]].kind = "TransactionStream"
           /\ last.data_batches[k] = <<PStr(<<"E", "r", "r", "o", "r">>)>>
           /\ last.pre[registry[k]].processed_count = 0
           /\ streams[registry[k]].processed_count = 1
           /\ streams[registry[k]].last_batch_count = 1

====
